---- MODULE Spec2Model ----
(***************************************************************************)
(* A model of import_epsol.py: the catalog importer of the EPSOL site.     *)
(*                                                                         *)
(* Text is modelled as a sequence of code points.  A code point is a       *)
(* string token: an ASCII character stands for itself, a Cyrillic letter   *)
(* is written "cy_<translit>" (lower case) or "CY_<TRANSLIT>" (upper       *)
(* case), the ruble sign is "rub_sign" and the no-break space "nbsp".      *)
(* Python's None is the value None below; it is never a text.              *)
(***************************************************************************)
EXTENDS Naturals, Integers, Sequences, FiniteSets, TLC

VARIABLES
  fn, arg, ret,
  start_urls, site, pc, inserted, cat_sub_list, sub_i, sub_ctx,
  product_links, prod_i, fetchLog, closed, submitted, lastEvent, okCreates, reported

fnvars == <<fn, arg, ret>>
ctlvars ==
  <<start_urls, site, pc, inserted, cat_sub_list, sub_i, sub_ctx,
    product_links, prod_i, fetchLog, closed, submitted, lastEvent, okCreates, reported>>
vars == <<fnvars, ctlvars>>

(***************************************************************************)
(* Python values                                                           *)
(***************************************************************************)
None == <<"<None>">>
Pending == <<"<Pending>">>

\* Python truthiness of an Optional[str] or of a list: None and the empty
\* sequence are falsy.
Truthy(v) == v # None /\ v # <<>>

Min(a, b) == IF a <= b THEN a ELSE b

LowerLetters ==
  <<
    "a", "b", "c", "d", "e", "f", "g", "h", "i", "j", "k", "l", "m", "n", "o", "p", "q",
    "r", "s", "t", "u", "v", "w", "x", "y", "z", "cy_a", "cy_b", "cy_v", "cy_g", "cy_d",
    "cy_e", "cy_zh", "cy_z", "cy_i", "cy_j", "cy_k", "cy_l", "cy_m", "cy_n", "cy_o",
    "cy_p", "cy_r", "cy_s", "cy_t", "cy_u", "cy_f", "cy_kh", "cy_ts", "cy_ch", "cy_sh",
    "cy_shch", "cy_hard", "cy_y", "cy_soft", "cy_eh", "cy_yu", "cy_ya"
  >>
UpperLetters ==
  <<
    "A", "B", "C", "D", "E", "F", "G", "H", "I", "J", "K", "L", "M", "N", "O", "P", "Q",
    "R", "S", "T", "U", "V", "W", "X", "Y", "Z", "CY_A", "CY_B", "CY_V", "CY_G", "CY_D",
    "CY_E", "CY_ZH", "CY_Z", "CY_I", "CY_J", "CY_K", "CY_L", "CY_M", "CY_N", "CY_O",
    "CY_P", "CY_R", "CY_S", "CY_T", "CY_U", "CY_F", "CY_KH", "CY_TS", "CY_CH", "CY_SH",
    "CY_SHCH", "CY_HARD", "CY_Y", "CY_SOFT", "CY_EH", "CY_YU", "CY_YA"
  >>

\* str.upper() and str.lower() on one code point
UpperChar(c) ==
  IF \E i \in DOMAIN LowerLetters : LowerLetters[i] = c
    THEN UpperLetters[CHOOSE i \in DOMAIN LowerLetters : LowerLetters[i] = c]
    ELSE c
LowerChar(c) ==
  IF \E i \in DOMAIN UpperLetters : UpperLetters[i] = c
    THEN LowerLetters[CHOOSE i \in DOMAIN UpperLetters : UpperLetters[i] = c]
    ELSE c
Upper(s) == [i \in DOMAIN s |-> UpperChar(s[i])]
Lower(s) == [i \in DOMAIN s |-> LowerChar(s[i])]

\* str.startswith
StartsWith(s, p) == Len(s) >= Len(p) /\ SubSeq(s, 1, Len(p)) = p
\* the substring at position i
MatchAt(s, i, p) == i + Len(p) - 1 <= Len(s) /\ SubSeq(s, i, i + Len(p) - 1) = p
\* "p in s" on strings
Contains(s, p) == \E i \in 1..(Len(s) + 1) : MatchAt(s, i, p)

\* the characters the regular expression class \s matches
Whitespace == {" ", "\t", "\n", "nbsp"}
DigitChars == <<"0", "1", "2", "3", "4", "5", "6", "7", "8", "9">>
IsDigit(c) == \E i \in DOMAIN DigitChars : DigitChars[i] = c

\* re.sub(r"\s+", " ", s): every maximal run of whitespace becomes one space,
\* that is, a whitespace character after another is dropped and the others
\* become a space
CollapseWs(s) ==
  LET kept == SelectSeq([i \in DOMAIN s |-> i],
                        LAMBDA i : ~(s[i] \in Whitespace /\ i > 1 /\ s[i - 1] \in Whitespace))
  IN [n \in DOMAIN kept |-> IF s[kept[n]] \in Whitespace THEN " " ELSE s[kept[n]]]

\* str.strip() after the collapse: at most one blank at either end
Strip(s) ==
  LET a == IF Len(s) > 0 /\ s[1] \in Whitespace THEN 2 ELSE 1
      b == IF Len(s) > 0 /\ s[Len(s)] \in Whitespace THEN Len(s) - 1 ELSE Len(s)
  IN IF a > b THEN <<>> ELSE SubSeq(s, a, b)

text_clean(s) == IF ~Truthy(s) THEN <<>> ELSE Strip(CollapseWs(s))

(***************************************************************************)
(* URLs                                                                    *)
(***************************************************************************)
BASE_URL == <<"h", "t", "t", "p", "s", ":", "/", "/", "e", "p", "s", "o", "l", ".", "r", "u">>
CATALOG_URL == BASE_URL \o <<"/", "k", "a", "t", "a", "l", "o", "g", "/">>

absolute_url(href) ==
  IF ~Truthy(href) THEN None
  ELSE IF StartsWith(href, <<"h", "t", "t", "p">>) THEN href
  ELSE IF StartsWith(href, <<"/">>) THEN BASE_URL \o href
  ELSE None

TOP_CATEGORIES ==
  <<
    <<
      "CY_D", "cy_o", "cy_z", "cy_i", "cy_r", "cy_u", "cy_yu", "cy_shch", "cy_i", "cy_e",
      " ", "cy_n", "cy_a", "cy_s", "cy_o", "cy_s", "cy_y"
    >>,
    <<
      "CY_D", "cy_o", "cy_z", "cy_i", "cy_r", "cy_o", "cy_v", "cy_o", "cy_ch", "cy_n",
      "cy_y", "cy_e", " ", "cy_n", "cy_a", "cy_s", "cy_o", "cy_s", "cy_y"
    >>,
    <<
      "CY_P", "cy_e", "cy_r", "cy_i", "cy_s", "cy_t", "cy_a", "cy_l", "cy_soft", "cy_t",
      "cy_i", "cy_ch", "cy_e", "cy_s", "cy_k", "cy_i", "cy_e", " ", "cy_n", "cy_a",
      "cy_s", "cy_o", "cy_s", "cy_y"
    >>,
    <<
      "CY_A", "cy_n", "cy_a", "cy_l", "cy_i", "cy_z", "cy_a", "cy_t", "cy_o", "cy_r",
      "cy_y", " ", "cy_zh", "cy_i", "cy_d", "cy_k", "cy_o", "cy_s", "cy_t", "cy_i"
    >>,
    <<
      "CY_S", "cy_i", "cy_s", "cy_t", "cy_e", "cy_m", "cy_y", " ", "cy_d", "cy_o",
      "cy_z", "cy_i", "cy_r", "cy_o", "cy_v", "cy_a", "cy_n", "cy_i", "cy_ya", " ",
      "cy_i", " ", "cy_k", "cy_o", "cy_n", "cy_t", "cy_r", "cy_o", "cy_l", "cy_ya"
    >>,
    <<
      "CY_D", "cy_a", "cy_t", "cy_ch", "cy_i", "cy_k", "cy_i", " ", "cy_i", " ", "cy_eh",
      "cy_l", "cy_e", "cy_k", "cy_t", "cy_r", "cy_o", "cy_d", "cy_y"
    >>,
    <<
      "CY_D", "cy_e", "cy_r", "cy_zh", "cy_a", "cy_t", "cy_e", "cy_l", "cy_i", " ",
      "cy_d", "cy_a", "cy_t", "cy_ch", "cy_i", "cy_k", "cy_o", "cy_v"
    >>,
    <<
      "CY_M", "cy_i", "cy_k", "cy_s", "cy_e", "cy_r", "cy_y", " ", "(", "cy_m", "cy_e",
      "cy_sh", "cy_a", "cy_l", "cy_k", "cy_i", ")"
    >>,
    <<
      "CY_I", "cy_m", "cy_p", "cy_u", "cy_l", "cy_soft", "cy_s", "cy_n", "cy_y", "cy_e",
      " ", "cy_r", "cy_a", "cy_s", "cy_kh", "cy_o", "cy_d", "cy_o", "cy_m", "cy_e",
      "cy_r", "cy_y"
    >>
  >>

(***************************************************************************)
(* Price/currency tokenizer                                                *)
(***************************************************************************)
\* A float is held exactly, as the pair <<mant, exp>> for mant / 10^exp with
\* no trailing zero in the fraction.
RECURSIVE Normalize(_, _)
Normalize(mant, exp) ==
  IF exp > 0 /\ mant % 10 = 0 THEN Normalize(mant \div 10, exp - 1)
  ELSE <<mant, exp>>

DigitValue(c) == (CHOOSE i \in DOMAIN DigitChars : DigitChars[i] = c) - 1

RECURSIVE DigitsValue(_)
\* the integer written by the digits of s, other characters skipped
DigitsValue(s) ==
  IF s = <<>> THEN 0
  ELSE LET c == s[Len(s)]
           rest == SubSeq(s, 1, Len(s) - 1)
       IN IF IsDigit(c) THEN DigitsValue(rest) * 10 + DigitValue(c)
          ELSE DigitsValue(rest)

\* float(s) for a string of the characters the price pattern lets through:
\* None stands for the ValueError
PyFloat(s0) ==
  LET s == Strip(s0)
      dots == {i \in DOMAIN s : s[i] = "."}
      digits == {i \in DOMAIN s : IsDigit(s[i])}
  IN IF /\ digits # {}
        /\ Cardinality(dots) <= 1
        /\ \A i \in DOMAIN s : i \in dots \/ i \in digits
       THEN LET exp == IF dots = {} THEN 0
                       ELSE Len(s) - (CHOOSE i \in dots : TRUE)
            IN Normalize(DigitsValue(s), exp)
       ELSE None

\* the character class [\d\s\.,]
InNumClass(c) == IsDigit(c) \/ c \in Whitespace \/ c = "." \/ c = ","

\* the last index of the longest run of class characters starting after i
RunEnd(s, i) ==
  CHOOSE j \in i..Len(s) :
    /\ \A k \in (i + 1)..j : InNumClass(s[k])
    /\ j = Len(s) \/ ~InNumClass(s[j + 1])

\* the least repetition count of the class in the pattern: {2,}
MinNumTail == 2

CurrencyMarkers ==
  << <<"cy_r", "cy_u", "cy_b">>, <<"rub_sign">>, <<"cy_r", ".">>, <<"R", "U", "B">>, <<"U", "S", "D">>, <<"E", "U", "R">> >>

\* group 2 of the pattern at position k, matched ignoring case: the text of
\* the first alternative that matches, None when the group does not take part
MarkerAt(s, k) ==
  LET hits == {a \in DOMAIN CurrencyMarkers :
                 /\ k + Len(CurrencyMarkers[a]) - 1 <= Len(s)
                 /\ Lower(SubSeq(s, k, k + Len(CurrencyMarkers[a]) - 1))
                      = Lower(CurrencyMarkers[a])}
  IN IF hits = {} THEN None
     ELSE LET a == CHOOSE x \in hits : \A y \in hits : x <= y
          IN SubSeq(s, k, k + Len(CurrencyMarkers[a]) - 1)

\* re.search: the leftmost digit followed by at least MinNumTail class
\* characters; 0 when there is none
NumStart(s) ==
  LET ok == {i \in DOMAIN s : IsDigit(s[i]) /\ RunEnd(s, i) - i >= MinNumTail}
  IN IF ok = {} THEN 0 ELSE CHOOSE i \in ok : \A j \in ok : i <= j

NumToFloatText_keeps_comma(num) == SelectSeq(num, LAMBDA c : c # " " /\ c # "nbsp")

NumToFloatText(num) ==
  LET kept == SelectSeq(num, LAMBDA c : c # " " /\ c # "nbsp")
  IN [i \in DOMAIN kept |-> IF kept[i] = "," THEN "." ELSE kept[i]]

Currency(cur) ==
  IF ~Truthy(cur) THEN None
  ELSE LET u == Upper(cur)
       IN IF u \in {<<"U", "S", "D">>, <<"E", "U", "R">>, <<"R", "U", "B">>} THEN u
          ELSE IF \/ Contains(u, <<"CY_R", "CY_U", "CY_B">>)
                  \/ Contains(u, <<"CY_R", ".">>)
                  \/ Contains(cur, <<"rub_sign">>)
            THEN <<"R", "U", "B">>
          ELSE None

\* returns <<price, currency>>
extract_price_currency(text0) ==
  LET text == text_clean(text0)
      i == NumStart(text)
  IN IF i = 0 THEN <<None, None>>
     ELSE LET j == RunEnd(text, i)
              num == SubSeq(text, i, j)
              \* \s* takes whatever blanks follow the number (none: the
              \* class has taken them)
              k == j + 1
          IN <<PyFloat(NumToFloatText(num)), Currency(MarkerAt(text, k))>>


(***************************************************************************)
(* Helpers to enumerate inputs                                             *)
(***************************************************************************)
SeqsUpTo(S, n) == UNION {[1..k -> S] : k \in 0..n}

\* the concatenation of the sequences of ss: its elements ss[n][k], taken in
\* the order of n and then of k
Flatten(ss) ==
  LET lens == {Len(ss[n]) : n \in DOMAIN ss} \cup {0}
      widest == CHOOSE m \in lens : \A l \in lens : l <= m
      places == [m \in 1..(Len(ss) * widest) |->
                   <<((m - 1) \div widest) + 1, ((m - 1) % widest) + 1>>]
      kept == SelectSeq(places, LAMBDA p : p[2] <= Len(ss[p[1]]))
  IN [m \in DOMAIN kept |-> ss[kept[m][1]][kept[m][2]]]

RECURSIVE DigitsOf(_)
\* the decimal digits of n
DigitsOf(n) ==
  IF n < 10 THEN <<DigitChars[n + 1]>>
  ELSE DigitsOf(n \div 10) \o <<DigitChars[(n % 10) + 1]>>

RECURSIVE Pow10(_)
Pow10(k) == IF k = 0 THEN 1 ELSE 10 * Pow10(k - 1)

(***************************************************************************)
(* absolute_url applied to one href                                        *)
(***************************************************************************)
MaxPathParts == 2

PathParts == {<<"k", "a", "t", "a", "l", "o", "g", "/">>, <<"a", "/">>, <<"p", "a", "g", "e", "2", "/">>}

HrefPrefixes ==
  { <<>>, <<"h", "t", "t", "p", ":", "/", "/", "h", "o", "s", "t", "/">>, <<"h", "t", "t", "p", "s", ":", "/", "/", "e", "p", "s", "o", "l", ".", "r", "u", "/">>, <<"h", "t", "t", "p", "d", "/">>, <<"/">>, <<"/", "/", "h", "o", "s", "t", "/">>, <<"#">>, <<"m", "a", "i", "l", "t", "o", ":">>, <<"j", "a", "v", "a", "s", "c", "r", "i", "p", "t", ":">>, <<"f", "t", "p", ":", "/", "/", "h", "o", "s", "t", "/">>, <<"k">> }

HrefInputs ==
  {None} \cup {p \o Flatten(parts) : p \in HrefPrefixes, parts \in SeqsUpTo(PathParts, MaxPathParts)}

FnIdle == fn = "none" /\ arg = <<>> /\ ret = Pending

CtlIdle ==
  /\ start_urls = <<>>
  /\ site = <<>>
  /\ pc = "idle"
  /\ inserted = 0
  /\ cat_sub_list = <<>>
  /\ sub_i = 0
  /\ sub_ctx = <<>>
  /\ product_links = <<>>
  /\ prod_i = 0
  /\ fetchLog = <<>>
  /\ closed = <<>>
  /\ submitted = {}
  /\ lastEvent = <<>>
  /\ okCreates = 0
  /\ reported = -1

InitUrl == fn = "absolute_url" /\ arg \in HrefInputs /\ ret = Pending /\ CtlIdle

CallAbsoluteUrl ==
  /\ fn = "absolute_url"
  /\ ret = Pending
  /\ ret' = absolute_url(arg)
  /\ UNCHANGED <<fn, arg, ctlvars>>

NextUrl == CallAbsoluteUrl

SpecUrl == InitUrl /\ [][NextUrl]_vars

IsLetter(c) ==
  \/ \E i \in DOMAIN LowerLetters : LowerLetters[i] = c
  \/ \E i \in DOMAIN UpperLetters : UpperLetters[i] = c

\* the href names its scheme and authority: <letters>://...
IsAbsoluteHref(h) ==
  /\ Truthy(h)
  /\ \E i \in 2..Len(h) :
       /\ MatchAt(h, i, <<":", "/", "/">>)
       /\ \A j \in 1..(i - 1) : IsLetter(h[j])

\* the href starts with one "/" and not with "//"
IsRootRelativeHref(h) ==
  Truthy(h) /\ StartsWith(h, <<"/">>) /\ ~StartsWith(h, <<"/", "/">>)

UrlReturned == fn = "absolute_url" /\ ret # Pending

\* C6: absolute_url has three outcomes: an absolute href comes back
\* unchanged, an href starting with a single "/" comes back starting with the
\* origin, and every other href (protocol-relative, fragment, javascript:,
\* mailto:, relative, empty) comes back absent.
C6_ThreeOutcomes ==
  UrlReturned =>
    IF IsAbsoluteHref(arg) THEN ret = arg
    ELSE IF IsRootRelativeHref(arg) THEN ret # None /\ StartsWith(ret, BASE_URL)
    ELSE ret = None

\* the part of C6 the code does satisfy, kept as a check of the model: hrefs
\* starting with "http" come back unchanged, root-relative ones are prefixed
\* with the origin, and hrefs that start with neither "http" nor "/" are absent
UrlOutcomesOfTheCode ==
  UrlReturned =>
    IF Truthy(arg) /\ StartsWith(arg, <<"h", "t", "t", "p">>) THEN ret = arg
    ELSE IF IsRootRelativeHref(arg) THEN ret = BASE_URL \o arg
    ELSE IF Truthy(arg) /\ StartsWith(arg, <<"/", "/">>) THEN ret = BASE_URL \o arg
    ELSE ret = None


(***************************************************************************)
(* extract_price_currency applied to one written price                     *)
(***************************************************************************)
MaxWhole == 12

\* the whole parts tried: every small one, and two of four digits
WholeSamples == 0..MaxWhole \cup {1234, 5000}

\* the fractions tried: none, or a decimal comma or point and digits
FracSamples == { <<>>, <<",", "5">>, <<".", "5">>, <<",", "5", "0">>, <<",", "2", "5">> }

\* what stands between the number and the marker, and the markers
SepSamples == { <<>>, <<" ">>, <<"nbsp", " ">> }
MarkerSamples ==
  { <<>>, <<"cy_r", "cy_u", "cy_b">>, <<"CY_R", "CY_U", "CY_B">>, <<"rub_sign">>, <<"cy_r", ".">>, <<"R", "U", "B">>, <<"U", "S", "D">>,
    <<"e", "u", "r">>, <<"cy_sh", "cy_t">> }

PriceInputs ==
  [whole : WholeSamples, frac : FracSamples, grouped : BOOLEAN,
   sep : SepSamples, marker : MarkerSamples]

\* the number as written: grouped means a blank before the last three digits
Written(a) ==
  LET w == IF a.grouped /\ a.whole >= 1000
             THEN DigitsOf(a.whole \div 1000) \o <<" ">>
                    \o DigitsOf(((a.whole % 1000) \div 100))
                    \o DigitsOf(((a.whole % 100) \div 10))
                    \o DigitsOf(a.whole % 10)
             ELSE DigitsOf(a.whole)
  IN w \o a.frac

PriceText(a) == Written(a) \o a.sep \o a.marker

\* the amount the written number denotes
Amount(a) ==
  IF a.frac = <<>> THEN Normalize(a.whole, 0)
  ELSE LET fd == Len(a.frac) - 1
       IN Normalize(a.whole * Pow10(fd) + DigitsValue(a.frac), fd)

InitPrice ==
  /\ fn = "extract_price_currency"
  /\ arg \in {a \in PriceInputs : a.grouped => a.whole >= 1000}
  /\ ret = Pending
  /\ CtlIdle

CallExtractPriceCurrency ==
  /\ fn = "extract_price_currency"
  /\ ret = Pending
  /\ ret' = extract_price_currency(PriceText(arg))
  /\ UNCHANGED <<fn, arg, ctlvars>>

NextPrice == CallExtractPriceCurrency

SpecPrice == InitPrice /\ [][NextPrice]_vars

PriceReturned == fn = "extract_price_currency" /\ ret # Pending

\* "<A> rub" (Cyrillic), A without thousand separators
IsCanonicalRub(a) == ~a.grouped /\ a.sep = <<" ">> /\ a.marker = <<"cy_r", "cy_u", "cy_b">>
\* "1 234,50 USD"
IsGroupedUsdExample(a) ==
  /\ a.grouped /\ a.whole = 1234 /\ a.frac = <<",", "5", "0">>
  /\ a.sep = <<" ">> /\ a.marker = <<"U", "S", "D">>

\* C7 as stated: every amount A written without thousand separators, one-digit
\* amounts included, comes back from "<A> rub" as (A, "RUB"), and
\* "1 234,50 USD" comes back as (1234.50, "USD").
C7_RoundTripEveryAmount ==
  PriceReturned =>
    /\ IsCanonicalRub(arg) => ret = <<Amount(arg), <<"R", "U", "B">>>>
    /\ IsGroupedUsdExample(arg) => ret = <<Normalize(123450, 2), <<"U", "S", "D">>>>

\* C7 amended: the round trip holds for every amount whose written form has
\* at least two characters; "1 234,50 USD" comes back as (1234.50, "USD").
C7_RoundTripTwoChars ==
  PriceReturned =>
    /\ (IsCanonicalRub(arg) /\ Len(Written(arg)) >= 2)
         => ret = <<Amount(arg), <<"R", "U", "B">>>>
    /\ IsGroupedUsdExample(arg) => ret = <<Normalize(123450, 2), <<"U", "S", "D">>>>

\* a one-digit amount is not recognised at all
C7_OneDigitIsAbsent ==
  (PriceReturned /\ IsCanonicalRub(arg) /\ Len(Written(arg)) = 1)
    => ret = <<None, None>>

C7_Witness ==
  /\ PriceReturned
  /\ IsCanonicalRub(arg)
  /\ Len(Written(arg)) = 2
  /\ arg.whole >= 10
  /\ ret = <<Amount(arg), <<"R", "U", "B">>>>

C7_WitnessGrouped ==
  PriceReturned /\ IsGroupedUsdExample(arg) /\ ret[1] = <<12345, 1>>


(***************************************************************************)
(* Pages.  A page is what BeautifulSoup's queries find in it.  Its field   *)
(* anchors lists the <a> elements in document order, each with its href    *)
(* attribute (None when it has none) and the place the selectors look at:  *)
(* ctx "ul" inside ul.products li.product, "grid" inside another           *)
(* .products .product, "none" elsewhere; loop for the class                *)
(* woocommerce-LoopProduct-link; shop for a place inside .shop-container.  *)
(***************************************************************************)
\* the six selectors of parse_products_from_subcat, in the order of the list
Selectors == <<"ul_loop", "ul_href", "grid_loop", "grid_href", "loop", "shop_href">>

\* whether anchor a matches the selector
Matches(sel, a) ==
  CASE sel = "ul_loop" -> a.ctx = "ul" /\ a.loop
    [] sel = "ul_href" -> a.ctx = "ul" /\ a.href # None
    [] sel = "grid_loop" -> a.ctx \in {"ul", "grid"} /\ a.loop
    [] sel = "grid_href" -> a.ctx \in {"ul", "grid"} /\ a.href # None
    [] sel = "loop" -> a.loop
    [] sel = "shop_href" -> a.shop /\ a.href # None
    [] sel = "a_href" -> a.href # None

\* soup.select(sel): the matching anchors (by position), in document order
Select(html, sel) ==
  SelectSeq([i \in DOMAIN html.anchors |-> i], LAMBDA i : Matches(sel, html.anchors[i]))

\* url.split("/"): the pieces between the slashes
Split(s) ==
  LET slashes == SelectSeq([i \in DOMAIN s |-> i], LAMBDA i : s[i] = "/")
      cuts == <<0>> \o slashes \o <<Len(s) + 1>>
  IN [n \in 1..(Len(cuts) - 1) |-> SubSeq(s, cuts[n] + 1, cuts[n + 1] - 1)]

HasPageSegment(url) ==
  LET segs == Split(url)
  IN \E n \in DOMAIN segs : Len(segs[n]) > 0 /\ Contains(Lower(segs[n]), <<"p", "a", "g", "e">>)

\* the positions a "seen" loop keeps: position i is kept when its key is not
\* among the keys seen before it, which are the keys of the earlier positions
FirstOfEachKey(keys) ==
  SelectSeq([i \in DOMAIN keys |-> i], LAMBDA i : \A j \in 1..(i - 1) : keys[j] # keys[i])

\* the loop over the candidate anchors: the products list before deduplication
ProductsOf(html, links) ==
  LET urls == [n \in DOMAIN links |-> absolute_url(html.anchors[links[n]].href)]
      keep == SelectSeq([n \in DOMAIN links |-> n],
                LAMBDA n : /\ Truthy(urls[n])
                           /\ StartsWith(urls[n], BASE_URL)
                           /\ ~HasPageSegment(urls[n]))
  IN [n \in DOMAIN keep |-> << <<>>, urls[keep[n]] >>]

\* the deduplication by url
DedupeProducts(products) ==
  LET kept == FirstOfEachKey([n \in DOMAIN products |-> products[n][2]])
  IN [n \in DOMAIN kept |-> products[kept[n]]]

parse_products_from_subcat_first_match(html) ==
  LET hits == {k \in DOMAIN Selectors : Select(html, Selectors[k]) # <<>>}
      links == IF hits = {} THEN Select(html, "a_href")
               ELSE Select(html, Selectors[CHOOSE k \in hits : \A m \in hits : k <= m])
  IN DedupeProducts(ProductsOf(html, links))

\* returns the list of <<name, url>> with the name always empty
parse_products_from_subcat(html) ==
  LET merged == Flatten([k \in DOMAIN Selectors |-> Select(html, Selectors[k])])
      links == IF merged = <<>> THEN Select(html, "a_href") ELSE merged
  IN DedupeProducts(ProductsOf(html, links))

(***************************************************************************)
(* parse_products_from_subcat applied to one listing page                  *)
(***************************************************************************)
MaxAnchors == 2

AnchorHrefs == { None, <<"/", "a", "/">>, <<"/", "b", "/">>, <<"/", "p", "a", "g", "e", "2", "/">>, <<"h", "t", "t", "p", ":", "/", "/", "h", "o", "s", "t", "/", "a", "/">> }

\* the anchors tried: .shop-container only around anchors outside the product
\* grid, and a missing href only on a product-grid link
AnchorSamples ==
  {a \in [href : AnchorHrefs, ctx : {"ul", "grid", "none"}, loop : BOOLEAN, shop : BOOLEAN] :
     /\ a.shop => a.ctx = "none"
     /\ a.href = None => a.loop /\ a.ctx = "ul"}

ListingInputs == {[anchors |-> as] : as \in SeqsUpTo(AnchorSamples, MaxAnchors)}

InitListing ==
  /\ fn = "parse_products_from_subcat"
  /\ arg \in ListingInputs
  /\ ret = Pending
  /\ CtlIdle

CallParseProductsFromSubcat ==
  /\ fn = "parse_products_from_subcat"
  /\ ret = Pending
  /\ ret' = parse_products_from_subcat(arg)
  /\ UNCHANGED <<fn, arg, ctlvars>>

NextListing == CallParseProductsFromSubcat

SpecListing == InitListing /\ [][NextListing]_vars

ListingReturned == fn = "parse_products_from_subcat" /\ ret # Pending

\* the patterns that match at least one anchor of the page
MatchingPatterns(html) ==
  {k \in DOMAIN Selectors : \E i \in DOMAIN html.anchors : Matches(Selectors[k], html.anchors[i])}
\* the first pattern anchor i matches; one more than the number of patterns
\* when it matches none
FirstPatternOf(html, i) ==
  LET ks == {k \in DOMAIN Selectors : Matches(Selectors[k], html.anchors[i])}
  IN IF ks = {} THEN Len(Selectors) + 1 ELSE CHOOSE k \in ks : \A m \in ks : k <= m
\* the URL anchor i stands for, None when the extractor discards the anchor
ListedUrl(html, i) ==
  LET u == absolute_url(html.anchors[i].href)
  IN IF u # None /\ StartsWith(u, BASE_URL) /\ ~Contains(Lower(u), <<"p", "a", "g", "e">>) THEN u ELSE None
OutputUrls(out) == {out[n][2] : n \in DOMAIN out}

\* C5 as stated: the candidates are the anchors of the first pattern that
\* matches anything; an anchor matched only by a lower-priority pattern never
\* appears in the output; the all-anchors fallback is used only when no
\* pattern matches.
C5_FirstMatchingPatternOnly ==
  ListingReturned =>
    LET hits == MatchingPatterns(arg)
        first == CHOOSE k \in hits : \A m \in hits : k <= m
        cand == IF hits = {} THEN {i \in DOMAIN arg.anchors : arg.anchors[i].href # None}
                ELSE {i \in DOMAIN arg.anchors : Matches(Selectors[first], arg.anchors[i])}
    IN OutputUrls(ret) = {ListedUrl(arg, i) : i \in cand} \ {None}

\* C5 amended: the candidates are the anchors matched by any of the patterns,
\* taken pattern by pattern in priority order (an anchor's URL is listed at
\* the place of the first pattern it matches, and in document order within a
\* pattern); the all-anchors fallback is used only when no pattern matches;
\* no URL is listed twice.
C5_AllMatchingPatternsMerged ==
  ListingReturned =>
    LET hits == MatchingPatterns(arg)
        cand == IF hits = {} THEN {i \in DOMAIN arg.anchors : arg.anchors[i].href # None}
                ELSE {i \in DOMAIN arg.anchors : FirstPatternOf(arg, i) <= Len(Selectors)}
        \* the place of a URL: the least <<pattern, position>> of its anchors
        Before(u, v) ==
          \E i \in cand : /\ ListedUrl(arg, i) = u
                          /\ \A j \in cand : ListedUrl(arg, j) = v =>
                               \/ FirstPatternOf(arg, i) < FirstPatternOf(arg, j)
                               \/ /\ FirstPatternOf(arg, i) = FirstPatternOf(arg, j)
                                  /\ i < j
    IN /\ OutputUrls(ret) = {ListedUrl(arg, i) : i \in cand} \ {None}
       /\ \A n \in DOMAIN ret : ret[n][1] = <<>>
       /\ \A m, n \in DOMAIN ret : m < n => ret[m][2] # ret[n][2] /\ Before(ret[m][2], ret[n][2])

\* a page where the first pattern matches one anchor and only the last
\* pattern matches another, and both URLs are listed
C5_Witness ==
  /\ ListingReturned
  /\ Len(arg.anchors) = 2
  /\ FirstPatternOf(arg, 1) = Len(Selectors)
  /\ FirstPatternOf(arg, 2) = 1
  /\ ret = << <<<<>>, BASE_URL \o <<"/", "b", "/">>>>, <<<<>>, BASE_URL \o <<"/", "a", "/">>>> >>
  /\ arg.anchors[1].href = <<"/", "a", "/">>


(***************************************************************************)
(* The document tree.  The field nodes of a page lists the nodes of the    *)
(* tree in document order: elements with their tag, text nodes with tag    *)
(* "#text" and their string; parent is the position of the parent element, *)
(* 0 for a child of the body.                                              *)
(***************************************************************************)
RECURSIVE IsInside(_, _, _)
\* node j is a descendant of node i; 0 is the body, which holds every node
IsInside(nodes, i, j) ==
  \/ i = 0
  \/ /\ nodes[j].parent # 0
     /\ \/ nodes[j].parent = i
        \/ IsInside(nodes, i, nodes[j].parent)

\* node.get_text(): the strings of the text nodes below i, joined
get_text(nodes, i) ==
  LET below == SelectSeq([j \in DOMAIN nodes |-> j],
                 LAMBDA j : nodes[j].tag = "#text" /\ IsInside(nodes, i, j))
  IN Flatten([n \in DOMAIN below |-> nodes[below[n]].text])

\* node.find_all("a", href=True)
find_all_a_href(nodes, i) ==
  SelectSeq([j \in DOMAIN nodes |-> j],
    LAMBDA j : nodes[j].tag = "a" /\ nodes[j].href # None /\ IsInside(nodes, i, j))

WalkedTags == {"h1", "h2", "h3", "div", "section", "ul", "ol", "p", "a"}
HeadingTags == {"h1", "h2", "h3"}
KATALOG_SEGMENT == <<"/", "k", "a", "t", "a", "l", "o", "g", "/">>

InTopCategories(s) == \E c \in DOMAIN TOP_CATEGORIES : TOP_CATEGORIES[c] = s

\* the cleaned text of heading node j when it names a top category
IsCategoryHeading(nodes, j) ==
  /\ nodes[j].tag \in HeadingTags
  /\ InTopCategories(text_clean(get_text(nodes, j)))

\* Strategy A, the category cursor when the walk reaches node i: the title of
\* the last heading before i that names a top category
CurrentCatAt(nodes, i) ==
  LET hs == {j \in 1..(i - 1) : j \in DOMAIN nodes /\ IsCategoryHeading(nodes, j)}
  IN IF hs = {} THEN None
     ELSE text_clean(get_text(nodes, CHOOSE j \in hs : \A k \in hs : k <= j))

\* Strategy A, the inner loop over the links as of one container: the triples
\* it appends
LinksUnderCategory(nodes, as, current_cat) ==
  LET sub(n) == text_clean(get_text(nodes, as[n]))
      href(n) == absolute_url(nodes[as[n]].href)
      kept == SelectSeq([n \in DOMAIN as |-> n],
                LAMBDA n : /\ ~(~Truthy(sub(n)) \/ Len(sub(n)) < 2)
                           /\ ~(~Truthy(href(n)) \/ ~Contains(href(n), KATALOG_SEGMENT))
                           /\ sub(n) # current_cat)
  IN [m \in DOMAIN kept |-> <<current_cat, sub(kept[m]), href(kept[m])>>]

\* Strategy A: [cat |-> the category cursor at the end, results |-> the
\* triples appended node by node]
StrategyA(nodes) ==
  [cat |-> CurrentCatAt(nodes, Len(nodes) + 1),
   results |->
     Flatten([i \in DOMAIN nodes |->
                IF /\ nodes[i].tag \in WalkedTags \ HeadingTags
                   /\ Truthy(CurrentCatAt(nodes, i))
                  THEN LinksUnderCategory(nodes, find_all_a_href(nodes, i),
                                          CurrentCatAt(nodes, i))
                  ELSE <<>>])]

KATALOG_WORD == <<"CY_K", "cy_a", "cy_t", "cy_a", "cy_l", "cy_o", "cy_g">>

\* Strategy B: the links visited, in order: for every text node matching the
\* pattern, ignoring case, the links of its parent element
LinksOfNavBlock(nodes) ==
  Flatten([i \in DOMAIN nodes |->
             IF /\ nodes[i].tag = "#text"
                /\ Contains(Lower(nodes[i].text), Lower(KATALOG_WORD))
               THEN find_all_a_href(nodes, nodes[i].parent)
               ELSE <<>>])

\* Strategy B: a visited link labelled as a top category moves the category
\* cursor; any other gives a triple under the cursor it finds
StrategyB(nodes, current_cat) ==
  LET as == LinksOfNavBlock(nodes)
      txt(n) == text_clean(get_text(nodes, as[n]))
      href(n) == absolute_url(nodes[as[n]].href)
      cat(n) ==
        LET moved == {m \in 1..(n - 1) : InTopCategories(txt(m))}
        IN IF moved = {} THEN current_cat
           ELSE txt(CHOOSE m \in moved : \A k \in moved : k <= m)
      kept == SelectSeq([n \in DOMAIN as |-> n],
                LAMBDA n : /\ ~InTopCategories(txt(n))
                           /\ Truthy(cat(n)) /\ Truthy(href(n))
                           /\ Contains(href(n), KATALOG_SEGMENT)
                           /\ Truthy(txt(n)) /\ txt(n) # cat(n))
  IN [m \in DOMAIN kept |-> <<cat(kept[m]), txt(kept[m]), href(kept[m])>>]

DedupeTriples_keeps_all(results) == results

\* the deduplication by (category, subcategory)
DedupeTriples(results) ==
  LET kept == FirstOfEachKey([n \in DOMAIN results |-> <<results[n][1], results[n][2]>>])
  IN [n \in DOMAIN kept |-> results[kept[n]]]

\* returns the list of <<category, subcategory, subcategory_url>>
parse_categories_and_subcats(html) ==
  LET a == StrategyA(html.nodes)
      results == IF a.results = <<>> THEN StrategyB(html.nodes, a.cat)
                 ELSE a.results
  IN DedupeTriples(results)


(***************************************************************************)
(* parse_categories_and_subcats applied to one catalog page: a heading     *)
(* followed by links, arranged in containers in one of several ways        *)
(***************************************************************************)
MaxLinks == 2

Element(tag, parent) == [tag |-> tag, parent |-> parent, text |-> <<>>, href |-> None]
TextNode(s, parent) == [tag |-> "#text", parent |-> parent, text |-> s, href |-> None]
\* <a href=...>label</a> under parent, the element being at position at
LinkNodes(link, parent, at) ==
  << [tag |-> "a", parent |-> parent, text |-> <<>>, href |-> link.href],
     TextNode(link.label, at) >>

LABEL_PUMP_A == <<"CY_N", "cy_a", "cy_s", "cy_o", "cy_s", " ", "A">>
LABEL_PUMP_B == <<"CY_N", "cy_a", "cy_s", "cy_o", "cy_s", " ", "B">>

HeadingSamples ==
  { TOP_CATEGORIES[1],
    <<"\n", " ">> \o TOP_CATEGORIES[1] \o <<" ", "\n">>,
    TOP_CATEGORIES[8],
    KATALOG_WORD }

LinkSamples ==
  { [label |-> LABEL_PUMP_A, href |-> <<"/", "k", "a", "t", "a", "l", "o", "g", "/", "a", "/">>],
    [label |-> <<"\n", " ">> \o LABEL_PUMP_A \o <<"\t">>, href |-> <<"/", "k", "a", "t", "a", "l", "o", "g", "/", "a", "2", "/">>],
    [label |-> LABEL_PUMP_B, href |-> <<"/", "k", "a", "t", "a", "l", "o", "g", "/", "b", "/">>],
    [label |-> <<"A">>, href |-> <<"/", "k", "a", "t", "a", "l", "o", "g", "/", "c", "/">>],
    [label |-> TOP_CATEGORIES[1], href |-> <<"/", "k", "a", "t", "a", "l", "o", "g", "/", "s", "e", "l", "f", "/">>],
    [label |-> LABEL_PUMP_B, href |-> <<"/", "a", "b", "o", "u", "t", "/">>],
    [label |-> <<>>, href |-> <<"/", "k", "a", "t", "a", "l", "o", "g", "/", "i", "m", "g", "/">>],
    [label |-> LABEL_PUMP_A, href |-> <<"k", "a", "t", "a", "l", "o", "g", "/", "r", "e", "l", "/">>] }

\* flat: one div holds the links; nested: a div holds a ul whose li hold the
\* links; split: each link in a p of its own; tail: a div holds a ul with the
\* first link, and the other links after the ul; nav: a div holds the word
\* for "catalog" and the links; bare: the links are children of the body
Shapes == {"flat", "nested", "split", "tail", "nav", "bare"}

CatalogInputs ==
  [heading : HeadingSamples, shape : Shapes, links : SeqsUpTo(LinkSamples, MaxLinks)]

\* the document of an input
CatalogNodes(in) ==
  LET head == << Element("h2", 0), TextNode(in.heading, 1) >>
      ls == in.links
      Plain(parent, first) ==
        Flatten([n \in DOMAIN ls |->
          LinkNodes(ls[n], parent, first + 2 * (n - 1))])
  IN CASE in.shape = "flat" -> head \o <<Element("div", 0)>> \o Plain(3, 4)
       [] in.shape = "bare" -> head \o Plain(0, 3)
       [] in.shape = "nav" ->
            head \o <<Element("div", 0), TextNode(KATALOG_WORD, 3)>> \o Plain(3, 5)
       [] in.shape = "split" ->
            head \o Flatten([n \in DOMAIN ls |->
              <<Element("p", 0)>> \o LinkNodes(ls[n], 3 * n, 3 * n + 1)])
       [] in.shape = "nested" ->
            head \o <<Element("div", 0), Element("ul", 3)>>
              \o Flatten([n \in DOMAIN ls |->
                   <<Element("li", 4)>> \o LinkNodes(ls[n], 3 * n + 2, 3 * n + 3)])
       [] in.shape = "tail" ->
            head \o <<Element("div", 0), Element("ul", 3)>>
              \o Flatten([n \in DOMAIN ls |->
                   LinkNodes(ls[n], IF n = 1 THEN 4 ELSE 3, 5 + 2 * (n - 1))])

CatalogPage(in) == [nodes |-> CatalogNodes(in)]

InitCatalog ==
  /\ fn = "parse_categories_and_subcats"
  /\ arg \in CatalogInputs
  /\ ret = Pending
  /\ CtlIdle

CallParseCategoriesAndSubcats ==
  /\ fn = "parse_categories_and_subcats"
  /\ ret = Pending
  /\ ret' = parse_categories_and_subcats(CatalogPage(arg))
  /\ UNCHANGED <<fn, arg, ctlvars>>

NextCatalog == CallParseCategoriesAndSubcats

SpecCatalog == InitCatalog /\ [][NextCatalog]_vars


CatalogReturned == fn = "parse_categories_and_subcats" /\ ret # Pending

\* the markup C9 is about: the heading is a known category and every link is
\* in a container (possibly nested) that follows the heading
ContainerShapes == {"flat", "nested", "split", "tail"}
IsHeadedBlock(in) ==
  InTopCategories(text_clean(in.heading)) /\ in.shape \in ContainerShapes

LinkLabel(in, i) == text_clean(in.links[i].label)
LinkUrl(in, i) == absolute_url(in.links[i].href)

\* link i is a subcategory candidate: it has a label of at least minLen
\* characters, other than the category, and its resolved href contains the
\* catalog path segment
IsCandidate(in, i, minLen) ==
  /\ Len(LinkLabel(in, i)) >= minLen
  /\ LinkLabel(in, i) # text_clean(in.heading)
  /\ LinkUrl(in, i) # None
  /\ Contains(LinkUrl(in, i), KATALOG_SEGMENT)

\* one triple per distinct candidate label, in first-occurrence order, with
\* the URL of the label's first candidate link
OneTriplePerLabel(in, out, minLen) ==
  LET cand == {i \in DOMAIN in.links : IsCandidate(in, i, minLen)}
      First(label) ==
        CHOOSE i \in cand :
          LinkLabel(in, i) = label /\ \A j \in cand : LinkLabel(in, j) = label => i <= j
  IN /\ {<<out[n][1], out[n][2]>> : n \in DOMAIN out}
          = {<<text_clean(in.heading), LinkLabel(in, i)>> : i \in cand}
     /\ \A n \in DOMAIN out : out[n][3] = LinkUrl(in, First(out[n][2]))
     /\ \A m, n \in DOMAIN out : m < n => First(out[m][2]) < First(out[n][2])

\* C9 as stated: for a heading that is a known category followed by
\* containers of links, the output is exactly one triple (heading, label,
\* resolved URL) per distinct link label whose resolved href contains the
\* catalog path segment and whose label differs from the heading, in
\* first-occurrence order; no link labelled as the category is emitted and no
\* two triples share (category, subcategory).
C9_OneTriplePerLabel ==
  (CatalogReturned /\ IsHeadedBlock(arg)) => OneTriplePerLabel(arg, ret, 1)

\* C9 amended: the same, for the link labels of at least two characters; a
\* link with a shorter label is never emitted.
C9_OneTriplePerLabelOfTwoChars ==
  (CatalogReturned /\ IsHeadedBlock(arg)) =>
    /\ OneTriplePerLabel(arg, ret, 2)
    /\ \A n \in DOMAIN ret : ret[n][2] # ret[n][1] /\ Len(ret[n][2]) >= 2
    /\ \A m, n \in DOMAIN ret : m # n => <<ret[m][1], ret[m][2]>> # <<ret[n][1], ret[n][2]>>

\* the example of the spec, in nested containers: the link labelled as the
\* category is left out and the other link gives the one triple
C9_Witness ==
  /\ CatalogReturned
  /\ arg.heading = TOP_CATEGORIES[1]
  /\ arg.shape = "nested"
  /\ arg.links = << [label |-> LABEL_PUMP_A, href |-> <<"/", "k", "a", "t", "a", "l", "o", "g", "/", "a", "/">>],
                    [label |-> TOP_CATEGORIES[1], href |-> <<"/", "k", "a", "t", "a", "l", "o", "g", "/", "s", "e", "l", "f", "/">>] >>
  /\ ret = << <<TOP_CATEGORIES[1], LABEL_PUMP_A, BASE_URL \o <<"/", "k", "a", "t", "a", "l", "o", "g", "/", "a", "/">>>> >>


(***************************************************************************)
(* Product pages.  Beside nodes and anchors a page holds what the queries  *)
(* of parse_product_page and of the breadcrumb inference find, each the    *)
(* text of the first element found, None when there is no such element:    *)
(*   entry_title    h1.entry-title                                         *)
(*   product_title  .product_title, .product-title, .entry-title           *)
(*   first_h1       the first h1                                           *)
(*   price_block    .price, .product-price, .price-block                   *)
(*   currency_text  the first text node naming a currency                  *)
(*   desc_el        the description containers;  first_p  the first p      *)
(*   table_rows     the rows of the tables, each the texts of its cells    *)
(*   dl_terms, dl_defs   the dt and the dd of the definition lists         *)
(*   crumbs         the texts of .breadcrumbs a, .breadcrumb a             *)
(***************************************************************************)
\* None where the value would be a page, and where it would be a dict
HtmlNone == [kind |-> "None"]
NoneDict == [kind |-> "None"]
\* a response with an empty body
HtmlEmpty == [kind |-> "empty"]
\* "if not html"
HtmlTruthy(html) == html.kind = "page"

CONSULTATION_PREFIX == <<"cy_n", "cy_u", "cy_zh", "cy_n", "cy_a", " ", "cy_k", "cy_o", "cy_n", "cy_s", "cy_u", "cy_l", "cy_soft", "cy_t", "cy_a", "cy_ts", "cy_i", "cy_ya">>
MaxSpecKeyLen == 80

FirstPresent(values) ==
  LET present == {n \in DOMAIN values : values[n] # None}
  IN IF present = {} THEN None ELSE values[CHOOSE n \in present : \A m \in present : n <= m]

\* specs[key] = val on a dict held as the list of its <<key, value>> items
DictPut(d, key, val) ==
  IF \E n \in DOMAIN d : d[n][1] = key
    THEN [n \in DOMAIN d |-> IF d[n][1] = key THEN <<key, val>> ELSE d[n]]
    ELSE Append(d, <<key, val>>)

RECURSIVE PutPairs(_, _, _)
\* the key/value pairs (raw texts) accepted into the dict, from position n on
PutPairs(d, pairs, n) ==
  IF n > Len(pairs) THEN d
  ELSE LET key == text_clean(pairs[n][1])
           val == text_clean(pairs[n][2])
       IN IF Truthy(key) /\ Truthy(val) /\ Len(key) <= MaxSpecKeyLen
            THEN PutPairs(DictPut(d, key, val), pairs, n + 1)
            ELSE PutPairs(d, pairs, n + 1)

\* the name: None without a title element or for the consultation heading
ProductName(html) ==
  LET title == FirstPresent(<<html.entry_title, html.product_title, html.first_h1>>)
      name == IF title # None THEN text_clean(title) ELSE None
  IN IF Truthy(name) /\ StartsWith(Lower(name), CONSULTATION_PREFIX) THEN None
     ELSE name

\* returns <<name, price, currency, description, specifications>>
parse_product_page(html) ==
  LET price_text == IF html.price_block # None THEN html.price_block
                    ELSE IF html.currency_text # None THEN html.currency_text
                    ELSE <<>>
      pc2 == extract_price_currency(price_text)
      desc == IF html.desc_el # None THEN text_clean(html.desc_el)
              ELSE IF html.first_p # None THEN text_clean(html.first_p)
              ELSE None
      rows == SelectSeq(html.table_rows, LAMBDA r : Len(r) >= 2)
      zipped == [n \in 1..Min(Len(html.dl_terms), Len(html.dl_defs)) |->
                   <<html.dl_terms[n], html.dl_defs[n]>>]
      specs == PutPairs(PutPairs(<<>>, rows, 1), zipped, 1)
  IN <<ProductName(html), pc2[1], pc2[2], desc,
       IF specs = <<>> THEN NoneDict ELSE [kind |-> "dict", items |-> specs]>>


(***************************************************************************)
(* The remote site.  A site is named by a few choices; PageAt gives the    *)
(* page it serves at a URL.                                                *)
(***************************************************************************)
EmptyPage ==
  [kind |-> "page", nodes |-> <<>>, anchors |-> <<>>,
   entry_title |-> None, product_title |-> None, first_h1 |-> None,
   price_block |-> None, currency_text |-> None, desc_el |-> None, first_p |-> None,
   table_rows |-> <<>>, dl_terms |-> <<>>, dl_defs |-> <<>>, crumbs |-> <<>>]

NAME_PUMP_X == <<"CY_N", "cy_a", "cy_s", "cy_o", "cy_s", " ", "X">>
NAME_PUMP_Y == <<"CY_N", "cy_a", "cy_s", "cy_o", "cy_s", " ", "Y">>
TEXT_PRICE_RUB == <<"5", " ", "0", "0", "0", " ", "cy_r", "cy_u", "cy_b">>
TEXT_PRICE_USD == <<"1", " ", "2", "3", "4", ",", "5", "0", " ", "U", "S", "D">>
TEXT_DESCRIPTION == <<"CY_O", "cy_p", "cy_i", "cy_s", "cy_a", "cy_n", "cy_i", "cy_e">>
TEXT_POWER == <<"CY_M", "cy_o", "cy_shch", "cy_n", "cy_o", "cy_s", "cy_t", "cy_soft">>
TEXT_100W == <<"1", "0", "0", " ", "CY_V", "cy_t">>
TEXT_200W == <<"2", "0", "0", " ", "CY_V", "cy_t">>
TEXT_CONSULTATION == <<"CY_N", "cy_u", "cy_zh", "cy_n", "cy_a", " ", "cy_k", "cy_o", "cy_n", "cy_s", "cy_u", "cy_l", "cy_soft", "cy_t", "cy_a", "cy_ts", "cy_i", "cy_ya", "?">>

ProductKinds == {"full", "bare", "usd", "blank_title", "untitled", "consult"}

ProductPage(kind) ==
  CASE kind = "full" ->
         [EmptyPage EXCEPT !.entry_title = NAME_PUMP_X, !.product_title = NAME_PUMP_X,
                           !.first_h1 = NAME_PUMP_X, !.price_block = TEXT_PRICE_RUB,
                           !.desc_el = TEXT_DESCRIPTION,
                           !.table_rows = << <<TEXT_POWER, TEXT_100W>>, <<TEXT_POWER>> >>,
                           !.dl_terms = <<TEXT_POWER>>, !.dl_defs = <<TEXT_200W>>]
    [] kind = "bare" ->
         [EmptyPage EXCEPT !.first_h1 = <<"\n", " ">> \o NAME_PUMP_X \o <<" ">>,
                           !.first_p = TEXT_DESCRIPTION]
    [] kind = "usd" ->
         [EmptyPage EXCEPT !.product_title = NAME_PUMP_Y, !.first_h1 = NAME_PUMP_Y,
                           !.currency_text = TEXT_PRICE_USD]
    [] kind = "blank_title" ->
         [EmptyPage EXCEPT !.first_h1 = <<" ">>, !.price_block = TEXT_PRICE_RUB]
    [] kind = "untitled" -> EmptyPage
    [] kind = "consult" ->
         [EmptyPage EXCEPT !.first_h1 = TEXT_CONSULTATION, !.price_block = TEXT_PRICE_RUB]

HREF_A == <<"/", "a", "/">>
HREF_B == <<"/", "b", "/">>
LA_URL == BASE_URL \o <<"/", "k", "a", "t", "a", "l", "o", "g", "/", "a", "/">>
LB_URL == BASE_URL \o <<"/", "k", "a", "t", "a", "l", "o", "g", "/", "b", "/">>
PA_URL == BASE_URL \o HREF_A
PB_URL == BASE_URL \o HREF_B

\* the caps of the two product loops
CapFull == 80
CapExplicit == 120
\* a listing longer than either cap
LongListing == CapExplicit + 1
GenHref(i) == <<"/", "p">> \o DigitsOf(i)

Anchor(href, ctx, loop, shop) == [href |-> href, ctx |-> ctx, loop |-> loop, shop |-> shop]

ListingKinds == {"two", "dup", "nolinks", "blank", "long"}

ListingPage(kind) ==
  CASE kind = "two" ->
         [EmptyPage EXCEPT
            !.anchors = << Anchor(HREF_B, "none", FALSE, TRUE), Anchor(HREF_A, "ul", TRUE, FALSE) >>,
            !.crumbs = << KATALOG_WORD, TOP_CATEGORIES[1], <<" ">> \o LABEL_PUMP_A >>,
            !.first_h1 = LABEL_PUMP_A]
    [] kind = "dup" ->
         [EmptyPage EXCEPT
            !.anchors = << Anchor(HREF_A, "ul", TRUE, FALSE), Anchor(HREF_A, "ul", FALSE, FALSE),
                           Anchor(<<"/", "p", "a", "g", "e", "2", "/">>, "ul", TRUE, FALSE), Anchor(<<"h", "t", "t", "p", ":", "/", "/", "h", "o", "s", "t", "/", "a", "/">>, "grid", FALSE, FALSE) >>,
            !.first_h1 = TOP_CATEGORIES[6] \o <<" ", "X">>]
    [] kind = "nolinks" ->
         [EmptyPage EXCEPT
            !.anchors = << Anchor(<<"/", "p", "a", "g", "e", "2", "/">>, "none", FALSE, FALSE), Anchor(<<"h", "t", "t", "p", ":", "/", "/", "h", "o", "s", "t", "/", "a", "/">>, "none", FALSE, FALSE) >>,
            !.crumbs = << <<" ">> >>]
    [] kind = "blank" -> HtmlEmpty
    [] kind = "long" ->
         [EmptyPage EXCEPT
            !.anchors = [i \in 1..LongListing |-> Anchor(GenHref(i), "none", TRUE, FALSE)],
            !.crumbs = << LABEL_PUMP_B >>]

CatalogKinds ==
  { [heading |-> TOP_CATEGORIES[1], shape |-> "nested",
     links |-> << [label |-> LABEL_PUMP_A, href |-> <<"/", "k", "a", "t", "a", "l", "o", "g", "/", "a", "/">>],
                  [label |-> LABEL_PUMP_B, href |-> <<"/", "k", "a", "t", "a", "l", "o", "g", "/", "b", "/">>] >>],
    [heading |-> TOP_CATEGORIES[8], shape |-> "flat",
     links |-> << [label |-> LABEL_PUMP_B, href |-> <<"/", "k", "a", "t", "a", "l", "o", "g", "/", "b", "/">>],
                  [label |-> TOP_CATEGORIES[8], href |-> <<"/", "k", "a", "t", "a", "l", "o", "g", "/", "s", "e", "l", "f", "/">>],
                  [label |-> LABEL_PUMP_A, href |-> <<"/", "k", "a", "t", "a", "l", "o", "g", "/", "a", "/">>] >>],
    [heading |-> KATALOG_WORD, shape |-> "flat",
     links |-> << [label |-> LABEL_PUMP_A, href |-> <<"/", "k", "a", "t", "a", "l", "o", "g", "/", "a", "/">>] >>] }

Sites ==
  [catalog : CatalogKinds, la : ListingKinds, pa : ProductKinds, pb : {"usd", "untitled"}]

\* the page the site serves at url; HtmlNone where it serves none
PageAt(s, url) ==
  IF url = CATALOG_URL THEN [EmptyPage EXCEPT !.nodes = CatalogNodes(s.catalog)]
  ELSE IF url = LA_URL THEN ListingPage(s.la)
  ELSE IF url = LB_URL THEN ListingPage("two")
  ELSE IF url = PA_URL THEN ProductPage(s.pa)
  ELSE IF url = PB_URL THEN ProductPage(s.pb)
  ELSE IF s.la = "long" /\ \E i \in 1..LongListing : url = BASE_URL \o GenHref(i)
    THEN ProductPage("untitled")
  ELSE HtmlNone

\* fetch_html: the text of the response, or None on any failure of the
\* request, which may happen to any request
FetchResults(s, url) == {HtmlNone, PageAt(s, url)}


(***************************************************************************)
(* import_catalog                                                          *)
(***************************************************************************)
MaxStartUrls == 2

\* the argument start_urls: given is FALSE for None
NoStartUrls == [given |-> FALSE, list |-> <<>>]
StartUrlSamples == {LA_URL, LB_URL, PA_URL, CATALOG_URL}
\* None, the empty list, and the lists of distinct start pages
StartInputs ==
  {NoStartUrls} \cup
  {[given |-> TRUE, list |-> l] :
     l \in {m \in SeqsUpTo(StartUrlSamples, MaxStartUrls) :
              \A i, j \in DOMAIN m : m[i] = m[j] => i = j}}

\* "if start_urls:"
UseStartUrls_when_given(s) == s.given

UseStartUrls(s) == s.given /\ s.list # <<>>

\* seq[:n]
Slice_uncut(seq, n) == seq

Slice(seq, n) == SubSeq(seq, 1, Min(Len(seq), n))

DEFAULT_CATEGORY == <<"CY_K", "cy_a", "cy_t", "cy_e", "cy_g", "cy_o", "cy_r", "cy_i", "cy_ya">>
DEFAULT_SUBCATEGORY == <<"CY_P", "cy_o", "cy_d", "cy_k", "cy_a", "cy_t", "cy_e", "cy_g", "cy_o", "cy_r", "cy_i", "cy_ya">>
CURRENCY_RUB == <<"R", "U", "B">>
PRICE_ZERO == <<0, 0>>

\* the keyword arguments of EquipmentCreate the three call sites share
EquipmentCreate(name, category, subcategory, description, price, currency, specifications) ==
  [name |-> name, category |-> category, subcategory |-> subcategory,
   description |-> description,
   price |-> IF price # None THEN price ELSE PRICE_ZERO,
   currency |-> IF Truthy(currency) THEN currency ELSE CURRENCY_RUB,
   brand |-> None, model |-> None,
   specifications |-> specifications, availability |-> TRUE]

\* what building and submitting one record may do: return, or raise
SubmitOutcomes == {"ok", "raises"}

\* "if not name: continue" and "if n:"
ShouldSubmit_any_name(name) == TRUE

ShouldSubmit(name) == Truthy(name)

\* "inserted += 1" as the last statement of the try block
InsertedAfter_counts_attempts(n, outcome) == n + 1

InsertedAfter(n, outcome) == IF outcome = "ok" THEN n + 1 ELSE n

\* where the run goes after a fetch that gave nothing: only the catalog page
\* ends it
AfterFailedFetch_always_returns(op, continue) == "aborted"

AfterFailedFetch(op, continue) == IF op = "catalog" THEN "aborted" ELSE continue

\* "if not product_links": the page is tried as a single product
TriesSinglePage_never(links) == FALSE

TriesSinglePage(links) == links = <<>>

\* the category and subcategory of a start page, from its breadcrumbs and
\* its heading
InferContext(html) ==
  LET crumbs == [n \in DOMAIN html.crumbs |-> text_clean(html.crumbs[n])]
      cat0 == IF crumbs = <<>> THEN None
              ELSE IF Len(crumbs) >= 2 THEN crumbs[Len(crumbs) - 1] ELSE crumbs[Len(crumbs)]
      sub0 == IF crumbs = <<>> THEN None ELSE crumbs[Len(crumbs)]
      sub1 == IF Truthy(sub0) THEN sub0
              ELSE IF html.first_h1 # None THEN text_clean(html.first_h1)
              ELSE DEFAULT_SUBCATEGORY
      tops == {c \in DOMAIN TOP_CATEGORIES : Contains(sub1, TOP_CATEGORIES[c])}
      cat1 == IF Truthy(cat0) THEN cat0
              ELSE IF tops # {} THEN TOP_CATEGORIES[CHOOSE c \in tops : \A d \in tops : c <= d]
              ELSE DEFAULT_CATEGORY
  IN [category |-> cat1, subcategory |-> sub1]

\* one request of fetch_html
Fetched(op, url) == [op |-> op, url |-> url]

Event(op, url, fetched, links, name, data, outcome) ==
  [op |-> op, url |-> url, fetched |-> fetched, links |-> links, name |-> name,
   data |-> data, outcome |-> outcome]

\* the sites and arguments tried: every small site with every argument, and
\* the site with the long listing with no argument and with both listings
Init ==
  /\ FnIdle
  /\ start_urls \in StartInputs
  /\ site \in Sites
  /\ site.la = "long" =>
       /\ site.pa = "full" /\ site.pb = "usd"
       /\ site.catalog.shape = "nested"
       /\ start_urls \in {NoStartUrls, [given |-> TRUE, list |-> <<LA_URL, LB_URL>>]}
  /\ (start_urls.given /\ start_urls.list = <<>>) => site.pa = "full" /\ site.pb = "usd"
  /\ start_urls.list # <<>> =>
       /\ site.catalog.shape = "nested" /\ site.pb = "usd"
       /\ site.la # "two" => site.pa = "full"
  /\ (\E i \in DOMAIN start_urls.list : start_urls.list[i] = CATALOG_URL) =>
       site.la = "two" /\ site.pa = "full"
  /\ pc = "start"
  /\ inserted = 0
  /\ cat_sub_list = <<>>
  /\ sub_i = 0
  /\ sub_ctx = [url |-> <<>>, category |-> None, subcategory |-> None]
  /\ product_links = <<>>
  /\ prod_i = 0
  /\ fetchLog = <<>>
  /\ closed = <<>>
  /\ submitted = {}
  /\ lastEvent = Event("none", <<>>, FALSE, 0, None, <<>>, "none")
  /\ okCreates = 0
  /\ reported = -1

\* lines 246-254 and 325: the choice of the mode
Start ==
  /\ pc = "start"
  /\ pc' = IF UseStartUrls(start_urls) THEN "explicit" ELSE "catalog"
  /\ sub_i' = 1
  /\ UNCHANGED <<fnvars, start_urls, site, inserted, cat_sub_list, sub_ctx, product_links,
                 prod_i, fetchLog, closed, submitted, lastEvent, okCreates, reported>>

\* lines 327-333: the catalog page
FetchCatalog ==
  /\ pc = "catalog"
  /\ \E html \in FetchResults(site, CATALOG_URL) :
       /\ fetchLog' = Append(fetchLog, Fetched("catalog", CATALOG_URL))
       /\ lastEvent' = Event("catalog", CATALOG_URL, HtmlTruthy(html), 0, None, <<>>, "none")
       /\ IF ~HtmlTruthy(html)
            THEN /\ pc' = AfterFailedFetch("catalog", "full")
                 /\ UNCHANGED cat_sub_list
            ELSE /\ pc' = "full"
                 /\ cat_sub_list' = parse_categories_and_subcats(html)
  /\ UNCHANGED <<fnvars, start_urls, site, inserted, sub_i, sub_ctx, product_links, prod_i,
                 closed, submitted, okCreates, reported>>

\* lines 335-343: the next listing of the full crawl
FullNextSub ==
  /\ pc = "full"
  /\ sub_i <= Len(cat_sub_list)
  /\ LET item == cat_sub_list[sub_i]
         sub_url == item[3]
     IN IF ~Truthy(sub_url)
          THEN /\ sub_i' = sub_i + 1
               /\ UNCHANGED <<pc, sub_ctx, product_links, prod_i, fetchLog, closed, lastEvent>>
          ELSE \E html \in FetchResults(site, sub_url) :
                 /\ fetchLog' = Append(fetchLog, Fetched("listing", sub_url))
                 /\ IF ~HtmlTruthy(html)
                      THEN /\ pc' = AfterFailedFetch("listing", "full")
                           /\ sub_i' = sub_i + 1
                           /\ closed' = Append(closed, [url |-> sub_url, fetched |-> FALSE])
                           /\ lastEvent' = Event("listing", sub_url, FALSE, 0, None, <<>>, "none")
                           /\ UNCHANGED <<sub_ctx, product_links, prod_i>>
                      ELSE LET links == parse_products_from_subcat(html)
                           IN /\ pc' = "full_products"
                              /\ product_links' = links
                              /\ prod_i' = 1
                              /\ sub_ctx' = [url |-> sub_url, category |-> item[1],
                                             subcategory |-> item[2]]
                              /\ lastEvent' = Event("listing", sub_url, TRUE, Len(links), None,
                                                    <<>>, "none")
                              /\ UNCHANGED <<sub_i, closed>>
  /\ UNCHANGED <<fnvars, start_urls, site, inserted, cat_sub_list, submitted, okCreates, reported>>

\* one turn of a product loop over product_links[:cap]: lines 344-367, and
\* lines 301-324
ProductTurn(at, cap) ==
  /\ pc = at
  /\ prod_i <= Len(Slice(product_links, cap))
  /\ LET prod_url == Slice(product_links, cap)[prod_i][2]
     IN \E html \in FetchResults(site, prod_url), outcome \in SubmitOutcomes :
          /\ fetchLog' = Append(fetchLog, Fetched("product", prod_url))
          /\ prod_i' = prod_i + 1
          /\ IF ~HtmlTruthy(html)
               THEN /\ pc' = AfterFailedFetch("product", at)
                    /\ lastEvent' = Event("product", prod_url, FALSE, 0, None, <<>>, "none")
                    /\ UNCHANGED <<inserted, okCreates, submitted>>
               ELSE LET p == parse_product_page(html)
                        data == EquipmentCreate(p[1], sub_ctx.category, sub_ctx.subcategory,
                                                p[4], p[2], p[3], p[5])
                    IN /\ pc' = at
                       /\ IF ~ShouldSubmit(p[1])
                            THEN /\ lastEvent' = Event("product", prod_url, TRUE, 0, p[1], <<>>,
                                                       "none")
                                 /\ UNCHANGED <<inserted, okCreates, submitted>>
                            ELSE /\ lastEvent' = Event("product", prod_url, TRUE, 0, p[1],
                                                       <<data>>, outcome)
                                 /\ submitted' = submitted \cup {data}
                                 /\ inserted' = InsertedAfter(inserted, outcome)
                                 /\ okCreates' = IF outcome = "ok" THEN okCreates + 1
                                                 ELSE okCreates
  /\ UNCHANGED <<fnvars, start_urls, site, cat_sub_list, sub_i, sub_ctx, product_links,
                 closed, reported>>

\* the end of a product loop: on to the next listing
ProductLoopEnd(at, back, cap) ==
  /\ pc = at
  /\ prod_i > Len(Slice(product_links, cap))
  /\ pc' = back
  /\ sub_i' = sub_i + 1
  /\ closed' = Append(closed, [url |-> sub_ctx.url, fetched |-> TRUE])
  /\ UNCHANGED <<fnvars, start_urls, site, inserted, cat_sub_list, sub_ctx, product_links,
                 prod_i, fetchLog, submitted, lastEvent, okCreates, reported>>

FullProduct == ProductTurn("full_products", CapFull)
FullProductsDone == ProductLoopEnd("full_products", "full", CapFull)

\* lines 255-300: the next start URL, up to the product loop
ExplicitNextSub ==
  /\ pc = "explicit"
  /\ sub_i <= Len(start_urls.list)
  /\ LET sub_url == start_urls.list[sub_i]
     IN \E html \in FetchResults(site, sub_url), outcome \in SubmitOutcomes :
          /\ fetchLog' = Append(fetchLog, Fetched("listing", sub_url))
          /\ IF ~HtmlTruthy(html)
               THEN /\ pc' = AfterFailedFetch("listing", "explicit")
                    /\ sub_i' = sub_i + 1
                    /\ closed' = Append(closed, [url |-> sub_url, fetched |-> FALSE])
                    /\ lastEvent' = Event("listing", sub_url, FALSE, 0, None, <<>>, "none")
                    /\ UNCHANGED <<sub_ctx, product_links, prod_i, inserted, okCreates,
                                   submitted>>
               ELSE LET ctx == InferContext(html)
                        links == parse_products_from_subcat(html)
                        p == parse_product_page(html)
                        data == EquipmentCreate(p[1],
                                  IF Truthy(ctx.category) THEN ctx.category
                                  ELSE DEFAULT_CATEGORY,
                                  IF Truthy(ctx.subcategory) THEN ctx.subcategory
                                  ELSE DEFAULT_SUBCATEGORY,
                                  p[4], p[2], p[3], p[5])
                    IN /\ product_links' = links
                       /\ sub_ctx' = [url |-> sub_url, category |-> ctx.category,
                                      subcategory |-> ctx.subcategory]
                       /\ IF TriesSinglePage(links) /\ ShouldSubmit(p[1])
                            THEN \* the page is submitted as a product; whether the
                                 \* call returns ("continue") or raises ("pass"), the
                                 \* loop over the empty list does nothing
                                 /\ lastEvent' = Event("single", sub_url, TRUE, Len(links),
                                                       p[1], <<data>>, outcome)
                                 /\ submitted' = submitted \cup {data}
                                 /\ inserted' = InsertedAfter(inserted, outcome)
                                 /\ okCreates' = IF outcome = "ok" THEN okCreates + 1
                                                 ELSE okCreates
                            ELSE /\ lastEvent' = Event(IF TriesSinglePage(links) THEN "single"
                                                       ELSE "listing", sub_url, TRUE,
                                                       Len(links), IF TriesSinglePage(links)
                                                       THEN p[1] ELSE None, <<>>, "none")
                                 /\ UNCHANGED <<inserted, okCreates, submitted>>
                       /\ IF links = <<>>
                            THEN /\ pc' = "explicit"
                                 /\ sub_i' = sub_i + 1
                                 /\ closed' = Append(closed, [url |-> sub_url, fetched |-> TRUE])
                                 /\ UNCHANGED prod_i
                            ELSE /\ pc' = "explicit_products"
                                 /\ prod_i' = 1
                                 /\ UNCHANGED <<sub_i, closed>>
  /\ UNCHANGED <<fnvars, start_urls, site, cat_sub_list, reported>>

ExplicitProduct == ProductTurn("explicit_products", CapExplicit)
ExplicitProductsDone == ProductLoopEnd("explicit_products", "explicit", CapExplicit)

\* line 369: the report of the count, after either loop
Report ==
  /\ \/ pc = "full" /\ sub_i > Len(cat_sub_list)
     \/ pc = "explicit" /\ sub_i > Len(start_urls.list)
  /\ pc' = "done"
  /\ reported' = inserted
  /\ UNCHANGED <<fnvars, start_urls, site, inserted, cat_sub_list, sub_i, sub_ctx,
                 product_links, prod_i, fetchLog, closed, submitted, lastEvent, okCreates>>

Next ==
  \/ Start
  \/ FetchCatalog
  \/ FullNextSub
  \/ FullProduct
  \/ FullProductsDone
  \/ ExplicitNextSub
  \/ ExplicitProduct
  \/ ExplicitProductsDone
  \/ Report

Spec == Init /\ [][Next]_vars


(***************************************************************************)
(* Properties of import_catalog                                            *)
(***************************************************************************)
\* the fetches of listing pages and start pages, in the order issued
ListingFetches == SelectSeq(fetchLog, LAMBDA f : f.op = "listing")
UrlsOf(fs) == [i \in DOMAIN fs |-> fs[i].url]
IsPrefix(s, t) == Len(s) <= Len(t) /\ s = SubSeq(t, 1, Len(s))
NonEmptyListGiven == start_urls.given /\ start_urls.list # <<>>
IsRootFetch(f) == f.op = "catalog" /\ f.url = CATALOG_URL

\* C1 as stated: any present list, the empty one included, keeps the run
\* away from the catalog URL, and the empty list causes no fetch and no
\* submission at all
C1_ModeByPresence ==
  start_urls.given =>
    /\ \A i \in DOMAIN fetchLog : fetchLog[i].url # CATALOG_URL
    /\ start_urls.list = <<>> => fetchLog = <<>> /\ submitted = {}

\* C1 amended: the mode depends on whether a non-empty list was supplied.
\* With no list or the empty list the run is a full crawl whose first fetch
\* is the catalog URL; with a non-empty list the run never issues the root
\* fetch of the crawl and fetches the start URLs of the list, in order, all of
\* them by the end
C1_ModeByNonEmptyList ==
  pc # "start" =>
    IF NonEmptyListGiven
      THEN /\ pc \in {"explicit", "explicit_products", "done"}
           /\ \A i \in DOMAIN fetchLog : fetchLog[i].op # "catalog"
           /\ IsPrefix(UrlsOf(ListingFetches), start_urls.list)
           /\ pc = "done" => UrlsOf(ListingFetches) = start_urls.list
      ELSE /\ pc \in {"catalog", "full", "full_products", "aborted", "done"}
           /\ pc # "catalog" => fetchLog # <<>> /\ IsRootFetch(fetchLog[1])

\* an empty list was supplied and the run went to the catalog page
C1_Witness ==
  /\ start_urls.given /\ start_urls.list = <<>>
  /\ pc = "done"
  /\ fetchLog # <<>> /\ IsRootFetch(fetchLog[1])
  /\ submitted # {}

\* a run over a non-empty list finished without the root fetch
C1_WitnessExplicit ==
  /\ NonEmptyListGiven /\ pc = "done" /\ Len(fetchLog) > Len(start_urls.list)

\* the step fetched a page
FetchStep == fetchLog' # fetchLog
LoopStates == {"full", "full_products", "explicit", "explicit_products"}
\* the step leaves the product where it is and goes on to the next link
OnToNextProduct == pc' = pc /\ prod_i' = prod_i + 1 /\ sub_i' = sub_i
\* the step leaves the listing where it is and goes on to the next one
OnToNextListing == pc' = pc /\ sub_i' = sub_i + 1

\* C2: a product page whose extracted name is empty or absent is followed
\* by no create call, and the loop goes on to the next product link; every
\* record ever submitted has a non-empty name
C2_NamelessPageIsSkipped ==
  [][/\ \A d \in submitted' : d.name # None /\ d.name # <<>>
     /\ (/\ FetchStep
         /\ lastEvent'.op = "product" /\ lastEvent'.fetched
         /\ (lastEvent'.name = None \/ lastEvent'.name = <<>>))
        => /\ lastEvent'.data = <<>>
           /\ submitted' = submitted /\ okCreates' = okCreates /\ inserted' = inserted
           /\ OnToNextProduct]_vars

\* a product page was fetched, its name was blank, nothing was submitted and
\* the next product link of the listing is still to come
C2_Witness ==
  /\ pc \in {"full_products", "explicit_products"}
  /\ lastEvent.op = "product" /\ lastEvent.fetched /\ lastEvent.name = <<>>
  /\ lastEvent.data = <<>>
  /\ prod_i <= Len(product_links)

\* C3: a record whose building or submission raises is not counted and
\* stops nothing: the loop goes on to the next product link or start URL, the
\* count equals the number of create calls that returned, the count reported
\* at the end is that number, and at the end every listing was reached
C3_RaisingRecordIsSkipped ==
  [][/\ inserted' = okCreates'
     /\ pc' = "done" <=> reported' # -1
     /\ pc' = "done" =>
          /\ reported' = okCreates'
          /\ Len(closed') =
               IF start_urls.given /\ start_urls.list # <<>>
                 THEN Len(start_urls.list)
                 ELSE Len(SelectSeq(cat_sub_list', LAMBDA c : Truthy(c[3])))
     /\ (FetchStep /\ lastEvent'.outcome = "raises")
        => /\ inserted' = inserted
           /\ pc' \in LoopStates
           /\ IF lastEvent'.op = "single" THEN OnToNextListing ELSE OnToNextProduct]_vars

\* a run ended after a record that raised and a later one that was created
C3_Witness ==
  /\ pc = "done" /\ reported = 1
  /\ Cardinality(submitted) = 2
  /\ lastEvent.outcome = "ok"

\* C4: the run ends early only when the catalog page of a full crawl gave
\* nothing, and then nothing else was fetched or submitted and nothing
\* follows; any other fetch that gave nothing only moves the loop on to the
\* next start URL, listing or product link
C4_OnlyTheCatalogFailureEndsTheRun ==
  [][/\ pc # "aborted"
     /\ pc' = "aborted" =>
          /\ ~(start_urls.given /\ start_urls.list # <<>>)
          /\ Len(fetchLog') = 1 /\ IsRootFetch(fetchLog'[1])
          /\ lastEvent'.op = "catalog" /\ ~lastEvent'.fetched
          /\ submitted' = {} /\ okCreates' = 0 /\ reported' = -1
     /\ (FetchStep /\ ~lastEvent'.fetched /\ lastEvent'.op # "catalog")
        => /\ pc' \in LoopStates
           /\ submitted' = submitted /\ inserted' = inserted
           /\ IF lastEvent'.op = "listing" THEN OnToNextListing ELSE OnToNextProduct]_vars

\* a listing gave nothing, the next listing was reached, one of its product
\* pages gave nothing, and a product link is still to come
C4_Witness ==
  /\ closed # <<>> /\ ~closed[1].fetched
  /\ pc \in {"full_products", "explicit_products"}
  /\ lastEvent.op = "product" /\ ~lastEvent.fetched
  /\ prod_i <= Len(product_links)

\* C8: in a run over start URLs, a start page that was fetched and has no
\* product links is parsed as a product page; when its name is non-empty
\* exactly one record is built for it, with the extracted name, the price and
\* currency of the tokenizer or 0.0 and "RUB", availability true, brand and
\* model absent, and the run goes straight on to the next start URL without a
\* product fetch; a start page with product links is never submitted itself
C8_SinglePageFallback ==
  [][(pc = "explicit" /\ FetchStep /\ lastEvent'.fetched)
     => LET p == parse_product_page(PageAt(site, lastEvent'.url))
            made == lastEvent'.data
        IN IF lastEvent'.links = 0
             THEN /\ pc' = "explicit" /\ sub_i' = sub_i + 1
                  /\ Len(fetchLog') = Len(fetchLog) + 1
                  /\ IF p[1] # None /\ p[1] # <<>>
                       THEN /\ Len(made) = 1
                            /\ made[1].name = p[1]
                            /\ made[1].price = (IF p[2] = None THEN <<0, 0>> ELSE p[2])
                            /\ made[1].currency =
                                 (IF p[3] = None \/ p[3] = <<>> THEN <<"R", "U", "B">> ELSE p[3])
                            /\ made[1].availability = TRUE
                            /\ made[1].brand = None /\ made[1].model = None
                            /\ submitted' = submitted \cup {made[1]}
                       ELSE made = <<>> /\ submitted' = submitted
             ELSE /\ made = <<>> /\ submitted' = submitted /\ inserted' = inserted
                  /\ pc' = "explicit_products"]_vars

\* a start page without product links was submitted as the product it
\* describes, and created
C8_Witness ==
  /\ lastEvent.op = "single" /\ lastEvent.outcome = "ok"
  /\ lastEvent.links = 0
  /\ lastEvent.data # <<>>
  /\ lastEvent.data[1].name = NAME_PUMP_X
  /\ lastEvent.data[1].currency = CURRENCY_RUB
  /\ okCreates = 1 /\ Len(fetchLog) = 1

\* the URLs of the product fetches a listing page is due, under the cap of
\* the mode
DueProductUrls(url) ==
  LET links == parse_products_from_subcat(PageAt(site, url))
      cap == IF start_urls.given /\ start_urls.list # <<>> THEN 120 ELSE 80
  IN [i \in 1..(IF Len(links) <= cap THEN Len(links) ELSE cap) |-> links[i][2]]
ClosedFetches(c) ==
  <<c.url>> \o (IF c.fetched THEN DueProductUrls(c.url) ELSE <<>>)
NoRepeat(s) == Cardinality({s[m] : m \in DOMAIN s}) = Len(s)
\* the listings of the run, in the order the run takes them
ListingsOfRun ==
  IF start_urls.given /\ start_urls.list # <<>> THEN start_urls.list
  ELSE UrlsOf(SelectSeq([i \in DOMAIN cat_sub_list |-> [url |-> cat_sub_list[i][3]]],
                        LAMBDA f : Truthy(f.url)))

\* C10: after the root fetch of a full crawl, the fetches issued are, listing
\* by listing, the listing page followed by the first min(n, cap) product URLs
\* of its extracted, deduplicated links in their order, cap being 80 in a full
\* crawl and 120 over start URLs; no product URL is fetched twice for one
\* listing; the listings are taken in the order of the Category Extractor's
\* output, or of the supplied list
C10_FetchOrderAndCaps ==
  pc \notin {"start", "catalog", "aborted"} =>
    LET root == IF start_urls.given /\ start_urls.list # <<>> THEN <<>> ELSE <<CATALOG_URL>>
        before == root \o Flatten([i \in DOMAIN closed |-> ClosedFetches(closed[i])])
    IN /\ IsPrefix(UrlsOf(ListingFetches), ListingsOfRun)
       /\ IF pc \in {"full_products", "explicit_products"}
            THEN LET due == DueProductUrls(sub_ctx.url)
                 IN /\ NoRepeat(due)
                    /\ prod_i - 1 <= Len(due)
                    /\ UrlsOf(fetchLog) = before \o <<sub_ctx.url>> \o SubSeq(due, 1, prod_i - 1)
            ELSE UrlsOf(fetchLog) = before

\* a run over two start URLs ended: the first listing has 121 product links
\* and 120 were fetched, then the second listing and its two products
C10_Witness ==
  /\ pc = "done"
  /\ start_urls.list = <<LA_URL, LB_URL>>
  /\ site.la = "long"
  /\ Len(closed) = 2 /\ closed[1].fetched /\ closed[2].fetched
  /\ Len(fetchLog) = 1 + 120 + 1 + 2

====
